---- MODULE Spec2Model ----
(***************************************************************************)
(* gofsm: a stateless finite state machine.  One StateMachine (a table of  *)
(* transitions and a delegate) serves many objects; the caller passes the  *)
(* current state of the object to Trigger.  The delegate is the            *)
(* DefaultDelegate over the TurnstileEventProcessor of fsm_test.go.        *)
(***************************************************************************)
EXTENDS Integers, Sequences, FiniteSets, TLC

VARIABLES transitions, ts, obj, pc, call, trace, err, ret, ncalls, hist

vars == <<transitions, ts, obj, pc, call, trace, err, ret, ncalls, hist>>

\* ---- bounds ----
MaxRules == 2
MaxCalls == 3

\* ---- literal values ----
States == {"Locked", "Unlocked"}
Events == {"Coin", "Push"}
CallEvents == Events \cup {"Teleport"}
Actions == {"", "check"}

\* Transition{From, Event, To, Action}
Transition == [From : States, Event : Events, To : States, Action : Actions]

\* the table of initFSM
initFSM ==
    << [From |-> "Locked",   Event |-> "Coin", To |-> "Unlocked", Action |-> "check"],
       [From |-> "Locked",   Event |-> "Push", To |-> "Locked",   Action |-> "invalid-push"],
       [From |-> "Unlocked", Event |-> "Push", To |-> "Locked",   Action |-> "pass"],
       [From |-> "Unlocked", Event |-> "Coin", To |-> "Unlocked", Action |-> "repeat-check"] >>

\* the tables a StateMachine is constructed with
Tables == {initFSM} \cup UNION {[1..n -> Transition] : n \in 0..MaxRules}

\* ---- errors ----
\* a nil error / a nil Error
NilErr == [kind |-> "nil", badEvent |-> "", currentState |-> "", msg |-> ""]

\* smError with its two fields filled in the wrong order
smErrorSwapped(event, currentState) ==
    [kind |-> "smError", badEvent |-> currentState, currentState |-> event, msg |-> ""]

\* smError{event, currentState}
smError(event, currentState) ==
    [kind |-> "smError", badEvent |-> event, currentState |-> currentState, msg |-> ""]

BadEvent(e) == e.badEvent

CurrentState(e) == e.currentState

\* errors.New("...") of the turnstile's check action
ActionFault == [kind |-> "errorString", badEvent |-> "", currentState |-> "", msg |-> "fault"]

\* ---- the turnstile ----
NewTurnstile(id) ==
    [ID |-> id, EventCount |-> 0, CoinCount |-> 0, PassCount |-> 0,
     State |-> "Locked", States |-> <<"Locked">>]

\* ---- lookup ----
\* the range loop of findTransMatching from index i on; <<>> is the nil pointer
RECURSIVE scanFrom(_, _, _, _)
scanFrom(T, i, fromState, event) ==
    IF i > Len(T) THEN <<>>
    ELSE IF T[i].From = fromState /\ T[i].Event = event THEN <<T[i]>>
    ELSE scanFrom(T, i + 1, fromState, event)

\* a lookup in which the last matching rule wins
findTransMatchingLast(T, fromState, event) ==
    LET M == {i \in 1..Len(T) : T[i].From = fromState /\ T[i].Event = event}
    IN  IF M = {} THEN <<>> ELSE <<T[CHOOSE i \in M : \A j \in M : j <= i]>>

\* a lookup that falls back to the last rule of the table instead of nil
findTransMatchingDefault(T, fromState, event) ==
    LET r == scanFrom(T, 1, fromState, event)
    IN  IF r = <<>> /\ Len(T) > 0 THEN <<T[Len(T)]>> ELSE r

\* a lookup that keeps the rule resolved by the call before and answers with
\* it when the scan finds nothing
findTransMatchingSticky(T, fromState, event) ==
    LET r == scanFrom(T, 1, fromState, event)
        kept == {t \in DOMAIN call : call[t].trans # <<>>}
    IN  IF r = <<>> /\ kept # {} THEN call[CHOOSE t \in kept : TRUE].trans ELSE r

findTransMatching(T, fromState, event) == scanFrom(T, 1, fromState, event)

\* ---- the record of a callback invocation ----
Invoke(cb, action, fromState, toState, args, e) ==
    [cb |-> cb, action |-> action, fromState |-> fromState, toState |-> toState,
     args |-> args, err |-> e]

NoCall ==
    [currentState |-> "", event |-> "", args |-> <<>>, trans |-> <<>>, pre |-> NewTurnstile(0)]

\* Trigger without the test of the action label
HasActionAlways(trans) == TRUE

\* what a caller has seen of a call of Trigger that returned: its arguments,
\* the rule it resolved, the callbacks it invoked and its result
Outcome(c, tr, e, r) ==
    [currentState |-> c.currentState, event |-> c.event, args |-> c.args,
     trans |-> c.trans, trace |-> tr, err |-> e, ret |-> r]

\* Trigger's test trans.Action != ""
HasAction(trans) == trans.Action # ""

Threads == DOMAIN pc

Panicked == \E t \in Threads : pc[t] = "panic"

Init ==
    /\ transitions \in Tables
    /\ ts = [i \in {1} |-> NewTurnstile(i)]
    /\ obj = [t \in {1} |-> 1]
    /\ pc = [t \in {1} |-> "idle"]
    /\ call = [t \in {1} |-> NoCall]
    /\ trace = [t \in {1} |-> <<>>]
    /\ err = [t \in {1} |-> NilErr]
    /\ ret = [t \in {1} |-> NilErr]
    /\ ncalls = 0
    /\ hist = [t \in {1} |-> <<>>]

\* Trigger up to the call of the delegate: the lookup, the no-match return and
\* the empty-action return
Trigger(t) ==
    /\ ~Panicked
    /\ pc[t] \in {"idle", "done"}
    /\ ncalls < MaxCalls
    /\ \E currentState \in States, event \in CallEvents :
         LET args == <<obj[t]>>
             trans == findTransMatching(transitions, currentState, event)
         IN /\ call' = [call EXCEPT ![t] =
                          [currentState |-> currentState, event |-> event, args |-> args,
                           trans |-> trans, pre |-> ts[args[1]]]]
            /\ IF trans = <<>>
               THEN /\ ret' = [ret EXCEPT ![t] = smError(event, currentState)]
                    /\ pc' = [pc EXCEPT ![t] = "done"]
                    /\ hist' = [hist EXCEPT ![t] =
                                  Append(@, Outcome(call'[t], <<>>, NilErr, ret'[t]))]
               ELSE IF HasAction(trans[1])
               THEN /\ ret' = ret
                    /\ pc' = [pc EXCEPT ![t] = "HandleEvent"]
                    /\ hist' = hist
               ELSE /\ ret' = [ret EXCEPT ![t] = NilErr]
                    /\ pc' = [pc EXCEPT ![t] = "done"]
                    /\ hist' = [hist EXCEPT ![t] =
                                  Append(@, Outcome(call'[t], <<>>, NilErr, ret'[t]))]
    /\ trace' = [trace EXCEPT ![t] = <<>>]
    /\ err' = [err EXCEPT ![t] = NilErr]
    /\ ncalls' = ncalls + 1
    /\ UNCHANGED <<transitions, obj, ts>>

\* ---- TurnstileEventProcessor ----
\* OnExit with the comparison of its check inverted
OnExitInverted(t, fromState) == t.State # fromState

\* OnExit: does the turnstile pass the check t.State == fromState (else panic)
OnExit(t, fromState) == t.State = fromState

\* Action: the turnstile after the action and the error returned
Action(t, action) ==
    LET t1 == [t EXCEPT !.EventCount = @ + 1]
    IN  IF action = "pass"
        THEN [t |-> [t1 EXCEPT !.PassCount = @ + 1], err |-> NilErr]
        ELSE IF action \in {"check", "repeat-check"}
        THEN IF t1.CoinCount > 0
             THEN [t |-> t1, err |-> ActionFault]
             ELSE [t |-> [t1 EXCEPT !.CoinCount = @ + 1], err |-> NilErr]
        ELSE [t |-> t1, err |-> NilErr]

\* OnEnter that sets State and forgets the history
OnEnterNoAppend(t, toState) == [t EXCEPT !.State = toState]

\* OnEnter: the turnstile records the state it enters
OnEnter(t, toState) ==
    [t EXCEPT !.State = toState, !.States = Append(@, toState)]

\* OnActionFailure only logs
OnActionFailure(t) == t

\* ---- DefaultDelegate.HandleEvent: its control flow ----
\* the parameters HandleEvent is called with by Trigger
action(t) == call[t].trans[1].Action
fromState(t) == call[t].currentState

\* Trigger passing the From of the rule where its To belongs
toStateFrom(t) == call[t].trans[1].From

toState(t) == call[t].trans[1].To

\* a delegate that keeps the args of its first caller
argsOfFirst(t) == <<1>>

args(t) == call[t].args

\* HandleEvent without the guard of OnExit
HandleEventEntryAlways(from, to) == "OnExit"

\* HandleEvent with the guard of OnExit inverted
HandleEventEntryInverted(from, to) == IF from = to THEN "OnExit" ELSE "Action"

\* HandleEvent without the call of OnExit
HandleEventEntrySkipExit(from, to) == "Action"

\* the first callback: OnExit unless the transition is a self transition
HandleEventEntry(from, to) == IF from # to THEN "OnExit" ELSE "Action"

\* HandleEvent that returns the error without the call of OnActionFailure
AfterActionNoHook(e, from, to) ==
    IF e # NilErr THEN "Return"
    ELSE IF from # to THEN "OnEnter"
    ELSE "Return"

\* HandleEvent without the call of OnEnter
AfterActionNoEnter(e, from, to) ==
    IF e # NilErr THEN "OnActionFailure" ELSE "Return"

\* HandleEvent that tries the Action again when it failed
AfterActionRetry(e, from, to) ==
    IF e # NilErr THEN "Action"
    ELSE IF from # to THEN "OnEnter"
    ELSE "Return"

\* HandleEvent that does not look at the error of Action
AfterActionIgnoreErr(e, from, to) == IF from # to THEN "OnEnter" ELSE "Return"

\* what follows the return of Action with error e
AfterAction(e, from, to) ==
    IF e # NilErr THEN "OnActionFailure"
    ELSE IF from # to THEN "OnEnter"
    ELSE "Return"

\* HandleEvent without the return after OnActionFailure
AfterOnActionFailureEnter(from, to) == IF from # to THEN "OnEnter" ELSE "Return"

\* what follows OnActionFailure: return err
AfterOnActionFailure(from, to) == "Return"

HandleEvent(t) ==
    /\ ~Panicked
    /\ pc[t] = "HandleEvent"
    /\ trace' = [trace EXCEPT ![t] =
                   Append(@, Invoke("HandleEvent", action(t), fromState(t), toState(t),
                                    args(t), NilErr))]
    /\ pc' = [pc EXCEPT ![t] = HandleEventEntry(fromState(t), toState(t))]
    /\ UNCHANGED <<transitions, obj, ts, call, err, ret, ncalls, hist>>

CallOnExit(t) ==
    /\ ~Panicked
    /\ pc[t] = "OnExit"
    /\ trace' = [trace EXCEPT ![t] =
                   Append(@, Invoke("OnExit", "", fromState(t), "", args(t), NilErr))]
    /\ pc' = [pc EXCEPT ![t] =
                IF OnExit(ts[args(t)[1]], fromState(t)) THEN "Action" ELSE "panic"]
    /\ UNCHANGED <<transitions, obj, ts, call, err, ret, ncalls, hist>>

CallAction(t) ==
    /\ ~Panicked
    /\ pc[t] = "Action"
    /\ LET r == Action(ts[args(t)[1]], action(t))
       IN /\ ts' = [ts EXCEPT ![args(t)[1]] = r.t]
          /\ err' = [err EXCEPT ![t] = r.err]
          /\ pc' = [pc EXCEPT ![t] = AfterAction(r.err, fromState(t), toState(t))]
    /\ trace' = [trace EXCEPT ![t] =
                   Append(@, Invoke("Action", action(t), fromState(t), toState(t), args(t), NilErr))]
    /\ UNCHANGED <<transitions, obj, call, ret, ncalls, hist>>

CallOnActionFailure(t) ==
    /\ ~Panicked
    /\ pc[t] = "OnActionFailure"
    /\ ts' = [ts EXCEPT ![args(t)[1]] = OnActionFailure(@)]
    /\ trace' = [trace EXCEPT ![t] =
                   Append(@, Invoke("OnActionFailure", action(t), fromState(t), toState(t),
                                    args(t), err[t]))]
    /\ pc' = [pc EXCEPT ![t] = AfterOnActionFailure(fromState(t), toState(t))]
    /\ UNCHANGED <<transitions, obj, call, err, ret, ncalls, hist>>

CallOnEnter(t) ==
    /\ ~Panicked
    /\ pc[t] = "OnEnter"
    /\ ts' = [ts EXCEPT ![args(t)[1]] = OnEnter(@, toState(t))]
    /\ trace' = [trace EXCEPT ![t] =
                   Append(@, Invoke("OnEnter", "", "", toState(t), args(t), NilErr))]
    /\ pc' = [pc EXCEPT ![t] = "Return"]
    /\ UNCHANGED <<transitions, obj, call, err, ret, ncalls, hist>>

\* HandleEvent returns err[t]; Trigger drops the value and returns nil
TriggerResult(e) == NilErr

Return(t) ==
    /\ ~Panicked
    /\ pc[t] = "Return"
    /\ ret' = [ret EXCEPT ![t] = TriggerResult(err[t])]
    /\ pc' = [pc EXCEPT ![t] = "done"]
    /\ hist' = [hist EXCEPT ![t] = Append(@, Outcome(call[t], trace[t], err[t], ret'[t]))]
    /\ UNCHANGED <<transitions, obj, ts, call, trace, err, ncalls>>

Next ==
    \E t \in Threads :
        \/ Trigger(t)
        \/ HandleEvent(t)
        \/ CallOnExit(t)
        \/ CallAction(t)
        \/ CallOnActionFailure(t)
        \/ CallOnEnter(t)
        \/ Return(t)

Spec == Init /\ [][Next]_vars

\* ---- the turnstile of TestFSM ----
\* the StateMachine of initFSM and the turnstile of TestFSM, one caller
InitTurnstile ==
    /\ Init
    /\ transitions = initFSM

SpecTurnstile == InitTurnstile /\ [][Next]_vars

\* the steps of a call that is under way: Trigger runs HandleEvent and its
\* callbacks synchronously on the goroutine of the caller
Running(t) ==
    \/ HandleEvent(t)
    \/ CallOnExit(t)
    \/ CallAction(t)
    \/ CallOnActionFailure(t)
    \/ CallOnEnter(t)
    \/ Return(t)

\* a goroutine inside Trigger keeps running
SpecTurnstileFair == SpecTurnstile /\ WF_vars(Running(1))

\* ---- several goroutines on one StateMachine ----
\* the goroutines that call Trigger concurrently
Callers == {1, 2}

\* each goroutine drives a turnstile of its own
InitDisjoint ==
    /\ transitions = initFSM
    /\ ts = [i \in Callers |-> NewTurnstile(i)]
    /\ obj = [t \in Callers |-> t]
    /\ pc = [t \in Callers |-> "idle"]
    /\ call = [t \in Callers |-> NoCall]
    /\ trace = [t \in Callers |-> <<>>]
    /\ err = [t \in Callers |-> NilErr]
    /\ ret = [t \in Callers |-> NilErr]
    /\ ncalls = 0
    /\ hist = [t \in Callers |-> <<>>]

SpecDisjoint == InitDisjoint /\ [][Next]_vars

\* the goroutines drive the same turnstile, with no lock around Trigger
InitShared ==
    /\ transitions = initFSM
    /\ ts = [i \in {1} |-> NewTurnstile(i)]
    /\ obj = [t \in Callers |-> 1]
    /\ pc = [t \in Callers |-> "idle"]
    /\ call = [t \in Callers |-> NoCall]
    /\ trace = [t \in Callers |-> <<>>]
    /\ err = [t \in Callers |-> NilErr]
    /\ ret = [t \in Callers |-> NilErr]
    /\ ncalls = 0
    /\ hist = [t \in Callers |-> <<>>]

SpecShared == InitShared /\ [][Next]_vars

\* ---- a call of Trigger run alone ----
\* Trigger(currentState, event, a...) on table T and turnstile t0 with no other
\* call in between: the turnstile it leaves, its callbacks, the error of the
\* Action, its return value and whether OnExit panicked
Serial(T, t0, currentState, event, a) ==
    LET trans == findTransMatching(T, currentState, event)
        out(t1, tr, e, r, p) == [t |-> t1, trace |-> tr, err |-> e, ret |-> r, panic |-> p]
    IN  IF trans = <<>> THEN out(t0, <<>>, NilErr, smError(event, currentState), FALSE)
        ELSE IF ~HasAction(trans[1]) THEN out(t0, <<>>, NilErr, NilErr, FALSE)
        ELSE
          LET act == trans[1].Action
              to == trans[1].To
              exit == HandleEventEntry(currentState, to) = "OnExit"
              tr0 == <<Invoke("HandleEvent", act, currentState, to, a, NilErr)>>
              tr1 == IF exit
                     THEN Append(tr0, Invoke("OnExit", "", currentState, "", a, NilErr))
                     ELSE tr0
              r == Action(t0, act)
              tr2 == Append(tr1, Invoke("Action", act, currentState, to, a, NilErr))
              after == AfterAction(r.err, currentState, to)
          IN  IF exit /\ ~OnExit(t0, currentState)
              THEN out(t0, tr1, NilErr, NilErr, TRUE)
              ELSE IF after = "OnActionFailure"
              THEN out(OnActionFailure(r.t),
                       Append(tr2, Invoke("OnActionFailure", act, currentState, to, a, r.err)),
                       r.err, TriggerResult(r.err), FALSE)
              ELSE IF after = "OnEnter"
              THEN out(OnEnter(r.t, to),
                       Append(tr2, Invoke("OnEnter", "", "", to, a, NilErr)),
                       r.err, TriggerResult(r.err), FALSE)
              ELSE out(r.t, tr2, r.err, TriggerResult(r.err), FALSE)

\* the calls h[i], h[i+1], ... run alone, one after the other, from turnstile
\* t0: do they return what h records, and which turnstile do they leave
RECURSIVE Alone(_, _, _, _)
Alone(T, t0, h, i) ==
    IF i > Len(h) THEN [same |-> TRUE, t |-> t0]
    ELSE LET s == Serial(T, t0, h[i].currentState, h[i].event, h[i].args)
         IN  IF s.panic \/ s.trace # h[i].trace \/ s.ret # h[i].ret
             THEN [same |-> FALSE, t |-> t0]
             ELSE Alone(T, s.t, h, i + 1)

\* ---- vocabulary of the properties ----
\* the indexes of the rules of T that match (from, event)
Matching(T, from, event) == {i \in 1..Len(T) : T[i].From = from /\ T[i].Event = event}

Lowest(S) == CHOOSE i \in S : \A j \in S : i <= j

\* the rule matched by the call of thread t, and whether there is one
Matched(t) == Matching(transitions, call[t].currentState, call[t].event) # {}
Rule(t) == transitions[Lowest(Matching(transitions, call[t].currentState, call[t].event))]

\* the call of thread t has returned to its caller
Returned(t) == pc[t] = "done"

\* the names of the callbacks invoked so far by the call of thread t
Callbacks(t) == [i \in 1..Len(trace[t]) |-> trace[t][i].cb]

\* how often callback cb was invoked by the call of thread t
Count(t, cb) == Cardinality({i \in 1..Len(trace[t]) : trace[t][i].cb = cb})

\* the turnstile the call of thread t is about
Entity(t) == ts[call[t].args[1]]

\* the caller passed the state recorded on the entity, as TestFSM does
PassedEntityState(t) == call[t].currentState = call[t].pre.State

\* C1: whenever a rule with a non-empty action matched and the handler's Action
\* returned an error e, Trigger returns a non-nil error equal to e.
C1_ActionErrorReturned ==
    \A t \in Threads :
        (Returned(t) /\ Matched(t) /\ err[t] # NilErr) =>
            (ret[t] # NilErr /\ ret[t] = err[t])

\* C2: the lookup returns the rule of lowest index whose From and Event both
\* match, and nil exactly when no rule matches; every call of Trigger resolved
\* its rule that way.
C2_FirstMatchWins ==
    /\ \A from \in States, event \in CallEvents :
          LET M == Matching(transitions, from, event)
              r == findTransMatching(transitions, from, event)
          IN  /\ (r = <<>>) <=> (M = {})
              /\ M # {} => r = <<transitions[Lowest(M)]>>
    /\ \A t \in Threads :
          pc[t] # "idle" =>
              call[t].trans = IF Matched(t) THEN <<Rule(t)>> ELSE <<>>

\* a call was resolved on a pair that two different rules match: the first won
C2_Witness ==
    \E t \in Threads :
        /\ Returned(t)
        /\ Cardinality(Matching(transitions, call[t].currentState, call[t].event)) > 1
        /\ transitions[1] # transitions[2]
        /\ call[t].trans = <<transitions[1]>>

\* C3: Trigger returns the no-matching-transition error if and only if no rule
\* has From = currentState and Event = event, and that error carries the event
\* and the current state of the call.
C3_NoMatchError ==
    \A t \in Threads :
        Returned(t) =>
            /\ (ret[t].kind = "smError") <=> ~Matched(t)
            /\ ~Matched(t) =>
                  /\ BadEvent(ret[t]) = call[t].event
                  /\ CurrentState(ret[t]) = call[t].currentState

C3_Witness ==
    \E t \in Threads :
        /\ Returned(t)
        /\ ~Matched(t)
        /\ Len(transitions) > 0
        /\ ret[t] = smError("Push", "Unlocked")

\* C4: a call of Trigger that finds no matching rule invokes no callback of
\* the handler and leaves the entity as it was before the call.
C4_NoMatchNoCallback ==
    \A t \in Threads :
        (pc[t] # "idle" /\ ~Matched(t)) =>
            /\ Returned(t)
            /\ trace[t] = <<>>
            /\ Entity(t) = call[t].pre

\* a call without a match on an entity that earlier calls have changed
C4_Witness ==
    \E t \in Threads :
        /\ Returned(t)
        /\ ~Matched(t)
        /\ Len(transitions) > 0
        /\ Entity(t).EventCount > 0
        /\ Entity(t).State = "Unlocked"

\* C5: in a call in which Action returned an error, OnEnter is never invoked,
\* also when fromState differs from toState.
C5_FailureSuppressesEnter ==
    \A t \in Threads :
        err[t] # NilErr =>
            /\ pc[t] # "OnEnter"
            /\ Count(t, "OnEnter") = 0

\* a failed Action of a transition between two different states has returned
C5_Witness ==
    \E t \in Threads :
        /\ Returned(t)
        /\ err[t] # NilErr
        /\ fromState(t) # toState(t)
        /\ Count(t, "OnExit") = 1

\* C6: a call that matched a rule with From = To and a non-empty action
\* invokes neither OnExit nor OnEnter: the callbacks of HandleEvent are Action
\* alone, followed by OnActionFailure if the Action failed.
C6_SelfTransition ==
    \A t \in Threads :
        (pc[t] # "idle" /\ Matched(t) /\ Rule(t).From = Rule(t).To /\ Rule(t).Action # "") =>
            /\ pc[t] \notin {"OnExit", "OnEnter", "panic"}
            /\ Count(t, "OnExit") = 0
            /\ Count(t, "OnEnter") = 0
            /\ Returned(t) =>
                  Callbacks(t) = IF err[t] = NilErr
                                 THEN <<"HandleEvent", "Action">>
                                 ELSE <<"HandleEvent", "Action", "OnActionFailure">>

\* a self transition whose Action failed has returned
C6_Witness ==
    \E t \in Threads :
        /\ Returned(t)
        /\ Matched(t)
        /\ Rule(t).From = Rule(t).To
        /\ Rule(t).Action # ""
        /\ err[t] # NilErr
        /\ Callbacks(t) = <<"HandleEvent", "Action", "OnActionFailure">>

\* C7: a call that matched a rule with an empty action label returns nil and
\* invokes no callback of the handler, whether or not From equals To.
C7_EmptyAction ==
    \A t \in Threads :
        (pc[t] # "idle" /\ Matched(t) /\ Rule(t).Action = "") =>
            /\ Returned(t)
            /\ ret[t] = NilErr
            /\ trace[t] = <<>>
            /\ Entity(t) = call[t].pre

\* a rule with an empty action between two different states was triggered
C7_Witness ==
    \E t \in Threads :
        /\ Returned(t)
        /\ Matched(t)
        /\ Rule(t).Action = ""
        /\ Rule(t).From # Rule(t).To
        /\ ret[t] = NilErr

\* C8: in a call that matched a rule with a non-empty action and From # To and
\* whose Action succeeded, the callbacks are OnExit(fromState), Action,
\* OnEnter(toState) in that order: Action starts after OnExit has returned and
\* OnEnter after Action has returned.
C8_CallbackOrder ==
    \A t \in Threads :
        (Matched(t) /\ Rule(t).Action # "" /\ Rule(t).From # Rule(t).To) =>
            /\ pc[t] = "Action" => Callbacks(t) = <<"HandleEvent", "OnExit">>
            /\ pc[t] = "OnEnter" => Callbacks(t) = <<"HandleEvent", "OnExit", "Action">>
            /\ (Returned(t) /\ err[t] = NilErr) =>
                  /\ Callbacks(t) = <<"HandleEvent", "OnExit", "Action", "OnEnter">>
                  /\ trace[t][2].fromState = call[t].currentState
                  /\ trace[t][4].toState = Rule(t).To

\* a successful transition between two different states has returned
C8_Witness ==
    \E t \in Threads :
        /\ Returned(t)
        /\ Matched(t)
        /\ Rule(t).Action # ""
        /\ Rule(t).From # Rule(t).To
        /\ err[t] = NilErr
        /\ Len(trace[t]) = 4

\* C9: OnActionFailure is invoked exactly once in a call whose Action returned
\* an error, right after the Action and before the return, with the action,
\* fromState, toState and args of the call and with that error; it is never
\* invoked in a call whose Action succeeded.
C9_ActionFailureHook ==
    \A t \in Threads :
        /\ err[t] = NilErr => Count(t, "OnActionFailure") = 0
        /\ (err[t] # NilErr /\ pc[t] \in {"Return", "done"}) =>
              /\ Count(t, "OnActionFailure") = 1
              /\ Count(t, "Action") = 1
              /\ trace[t][Len(trace[t]) - 1].cb = "Action"
              /\ trace[t][Len(trace[t])] =
                    Invoke("OnActionFailure", Rule(t).Action, call[t].currentState,
                           Rule(t).To, call[t].args, err[t])

\* a call whose Action failed has returned
C9_Witness ==
    \E t \in Threads :
        /\ Returned(t)
        /\ err[t] = ActionFault
        /\ Count(t, "OnActionFailure") = 1

\* C10: when the caller passes the state recorded on the entity, then after
\* the call the recorded state is the To of the matched rule if the Action
\* succeeded, and the state recorded before the call if the Action failed or
\* no rule matched.
C10_RecordedState ==
    \A t \in Threads :
        (Returned(t) /\ PassedEntityState(t)) =>
            /\ (Matched(t) /\ Rule(t).Action # "" /\ err[t] = NilErr) =>
                  Entity(t).State = Rule(t).To
            /\ (err[t] # NilErr \/ ~Matched(t)) =>
                  Entity(t).State = call[t].pre.State

\* after an earlier change of state, an Action towards another state failed
C10_Witness ==
    \E t \in Threads :
        /\ Returned(t)
        /\ PassedEntityState(t)
        /\ err[t] # NilErr
        /\ Rule(t).To # call[t].pre.State
        /\ Len(Entity(t).States) > 1
        /\ Entity(t).State = call[t].pre.State

\* the names of the callbacks of a returned call
Names(h) == [i \in 1..Len(h.trace) |-> h.trace[i].cb]

\* C11 as stated: two calls of Trigger with the same (currentState, event)
\* resolve the same rule and produce the same callback sequence, whatever
\* calls were made before them.
C11_SameCallbacksAlways ==
    \A t \in Threads :
        \A i, j \in 1..Len(hist[t]) :
            (hist[t][i].currentState = hist[t][j].currentState
                /\ hist[t][i].event = hist[t][j].event) =>
                /\ hist[t][i].trans = hist[t][j].trans
                /\ Names(hist[t][i]) = Names(hist[t][j])

\* two returned calls agree on (currentState, event) and on the result of Action
SameCall(g, h) ==
    /\ g.currentState = h.currentState
    /\ g.event = h.event
    /\ g.args = h.args
    /\ g.err = h.err

\* C11 (amended): Trigger never modifies the transition table, and two calls
\* with the same (currentState, event) resolve the same rule whatever calls
\* were made before; they invoke the same callbacks and return the same value
\* whenever the handler's Action returns the same result in both.
C11_Stateless ==
    /\ [](\A t \in Threads :
            \A i, j \in 1..Len(hist[t]) :
                /\ (hist[t][i].currentState = hist[t][j].currentState
                       /\ hist[t][i].event = hist[t][j].event) =>
                      hist[t][i].trans = hist[t][j].trans
                /\ SameCall(hist[t][i], hist[t][j]) =>
                      /\ hist[t][i].trace = hist[t][j].trace
                      /\ hist[t][i].ret = hist[t][j].ret)
    /\ [][transitions' = transitions]_vars

\* the same call was made twice with a different call between them, and the
\* Action succeeded both times
C11_Witness ==
    \E t \in Threads :
        /\ Len(hist[t]) = 3
        /\ SameCall(hist[t][1], hist[t][3])
        /\ hist[t][2].event # hist[t][1].event
        /\ Len(hist[t][2].trace) > 2
        /\ Len(hist[t][1].trace) > 1

\* C12: when goroutines call Trigger concurrently on one StateMachine, each
\* for a turnstile of its own, every call returns the value and invokes the
\* callbacks it would when the calls for that turnstile run alone, the
\* turnstile ends in the same state, and a call panics only if it would alone.
C12_Isolation ==
    \A t \in Threads :
        LET alone == Alone(transitions, NewTurnstile(obj[t]), hist[t], 1)
        IN  /\ alone.same
            /\ pc[t] \in {"idle", "done"} => ts[obj[t]] = alone.t
            /\ pc[t] = "panic" =>
                  Serial(transitions, alone.t, call[t].currentState, call[t].event,
                         call[t].args).panic

\* one goroutine is between Action and OnEnter while the other has returned
\* from two calls, the second with a failed Action
C12_Witness ==
    \E t, u \in Threads :
        /\ t # u
        /\ obj[t] # obj[u]
        /\ pc[t] = "OnEnter"
        /\ Returned(u)
        /\ Len(hist[u]) = 2
        /\ hist[u][2].err # NilErr
        /\ ts[obj[u]].State = "Unlocked"

\* the state of the per-invocation protocol the call of thread t is in
Phase(t) ==
    CASE pc[t] = "HandleEvent" -> "Idle"
      [] pc[t] \in {"OnExit", "panic"} -> "ExitPending"
      [] pc[t] = "Action" -> "ActionPending"
      [] pc[t] = "OnEnter" -> "EnterPending"
      [] pc[t] = "OnActionFailure" -> "Failed"
      [] pc[t] = "Return" -> IF err[t] # NilErr THEN "Failed" ELSE "Done"
      [] pc[t] = "done" -> IF trace[t] = <<>> THEN "None"
                           ELSE IF err[t] # NilErr THEN "Failed" ELSE "Done"
      [] OTHER -> "None"

\* the moves of the protocol; a self transition passes ExitPending and
\* EnterPending without a callback
PhaseMove(t, p, q) ==
    \/ <<p, q>> \in {<<"Idle", "ExitPending">>, <<"ExitPending", "ActionPending">>,
                      <<"ActionPending", "EnterPending">>, <<"EnterPending", "Done">>,
                      <<"ActionPending", "Failed">>}
    \/ /\ fromState(t) = toState(t)
       /\ <<p, q>> \in {<<"Idle", "ActionPending">>, <<"ActionPending", "Done">>}

\* C13: a call of Trigger for a matched rule with a non-empty action moves
\* along Idle, ExitPending, ActionPending, EnterPending, Done, or along Idle,
\* ExitPending, ActionPending, Failed when the Action fails; a new call starts
\* only from Done or Failed, the call returns only in Done or Failed, and
\* unless OnExit panics every call that entered HandleEvent returns.
C13_Protocol ==
    /\ [][\A t \in Threads :
            Phase(t)' # Phase(t) =>
                \/ Phase(t) \in {"None", "Done", "Failed"} /\ Phase(t)' \in {"None", "Idle"}
                \/ PhaseMove(t, Phase(t), Phase(t)')]_vars
    /\ [](\A t \in Threads :
            /\ (Returned(t) /\ trace[t] # <<>>) =>
                  Phase(t) = IF err[t] # NilErr THEN "Failed" ELSE "Done"
            /\ Phase(t) = "Failed" => err[t] # NilErr
            /\ Phase(t) \in {"EnterPending", "Done"} => err[t] = NilErr)
    /\ \A t \in {1} : (pc[t] = "HandleEvent") ~> (pc[t] \in {"done", "panic"})

\* a call has ended in Failed after a call that ended in Done
C13_Witness ==
    \E t \in Threads :
        /\ Returned(t)
        /\ Phase(t) = "Failed"
        /\ fromState(t) # toState(t)
        /\ Len(hist[t]) = 3
        /\ Len(hist[t][1].trace) = 4

\* C14: for a matched rule r with a non-empty action, HandleEvent, Action and
\* OnActionFailure receive (r.Action, currentState, r.To), OnExit receives
\* currentState, OnEnter receives r.To, and every callback receives the args
\* of the caller.
C14_CallbackArguments ==
    \A t \in Threads :
        \A i \in 1..Len(trace[t]) :
            LET c == trace[t][i]
            IN  /\ Matched(t)
                /\ Rule(t).Action # ""
                /\ c.args = call[t].args
                /\ c.args = <<obj[t]>>
                /\ c.cb \in {"HandleEvent", "Action", "OnActionFailure"} =>
                      /\ c.action = Rule(t).Action
                      /\ c.fromState = call[t].currentState
                      /\ c.toState = Rule(t).To
                /\ c.cb = "OnExit" => c.fromState = call[t].currentState
                /\ c.cb = "OnEnter" => c.toState = Rule(t).To
                /\ c.cb = "OnActionFailure" => c.err = err[t] /\ c.err # NilErr

\* OnExit, Action and OnEnter were invoked for the first of two rules with the
\* same (From, Event) and different To
C14_Witness ==
    \E t \in Threads :
        /\ Returned(t)
        /\ Len(trace[t]) = 4
        /\ Len(hist[t]) = 2
        /\ Len(transitions) = 2
        /\ transitions[2].From = call[t].currentState
        /\ transitions[2].Event = call[t].event
        /\ transitions[2].To = call[t].currentState
        /\ transitions[1].To # call[t].currentState

\* how often Action was invoked by the returned call h
Actions1(h) == Cardinality({i \in 1..Len(h.trace) : h.trace[i].cb = "Action"})

\* the returned calls of thread t that matched a rule with an action
MatchedCalls(t) ==
    {i \in 1..Len(hist[t]) : hist[t][i].trans # <<>> /\ hist[t][i].trans[1].Action # ""}

\* C15: a call that matched a rule with a non-empty action invokes Action
\* exactly once, also for a self transition and when the Action fails, so
\* between calls EventCount is the number of calls that matched such a rule.
C15_ActionOnce ==
    \A t \in Threads :
        /\ Count(t, "Action") <= 1
        /\ pc[t] \in {"OnActionFailure", "OnEnter", "Return"} => Count(t, "Action") = 1
        /\ (Returned(t) /\ Matched(t) /\ Rule(t).Action # "") => Count(t, "Action") = 1
        /\ \A i \in 1..Len(hist[t]) :
              Actions1(hist[t][i]) = IF i \in MatchedCalls(t) THEN 1 ELSE 0
        /\ pc[t] \in {"idle", "done"} =>
              ts[obj[t]].EventCount = Cardinality(MatchedCalls(t))

\* three calls matched, the last a self transition whose Action failed
C15_Witness ==
    \E t \in Threads :
        /\ Returned(t)
        /\ err[t] # NilErr
        /\ Rule(t).From = Rule(t).To
        /\ Count(t, "Action") = 1
        /\ Cardinality(MatchedCalls(t)) = 3
        /\ ts[obj[t]].EventCount = 3

\* thread u has invoked OnEnter in its current call or in a returned one
Entered(u) ==
    \/ Count(u, "OnEnter") > 0
    \/ \E i \in 1..Len(hist[u]) :
         \E k \in 1..Len(hist[u][i].trace) : hist[u][i].trace[k].cb = "OnEnter"

\* C16: nothing in the engine keeps two calls for one entity apart. The check
\* of OnExit (t.State == fromState) fails for a caller that passed the state
\* recorded on the entity only when the OnEnter of another goroutine's call
\* for the same entity ran after that call began; the witness is such a state.
C16_CheckFailsByInterleaving ==
    \A t \in Threads :
        (pc[t] = "panic" /\ PassedEntityState(t)) =>
            /\ Entity(t).State # call[t].pre.State
            /\ Len(Entity(t).States) > Len(call[t].pre.States)
            /\ \E u \in Threads \ {t} : obj[u] = obj[t] /\ Entered(u)

\* two calls for the same turnstile, both made with its recorded state, are
\* under way: one has run OnExit, Action and OnEnter and not yet returned, and
\* the check of OnExit fails in the other
C16_Witness ==
    \E t, u \in Threads :
        /\ t # u
        /\ obj[t] = obj[u]
        /\ PassedEntityState(t)
        /\ PassedEntityState(u)
        /\ pc[t] = "panic"
        /\ pc[u] = "Return"
        /\ Callbacks(u) = <<"HandleEvent", "OnExit", "Action", "OnEnter">>
        /\ call[u].pre = call[t].pre

\* C17: a call that matched a rule with a non-empty action and From # To and
\* whose Action failed invokes OnExit(fromState), Action, OnActionFailure and
\* nothing else: OnExit has run, OnEnter has not, and the turnstile still
\* records fromState.
C17_ExitWithoutEnter ==
    \A t \in Threads :
        (Returned(t) /\ Matched(t) /\ Rule(t).Action # "" /\ Rule(t).From # Rule(t).To
            /\ err[t] # NilErr) =>
            /\ Callbacks(t) = <<"HandleEvent", "OnExit", "Action", "OnActionFailure">>
            /\ trace[t][2].fromState = Rule(t).From
            /\ Count(t, "OnExit") = 1
            /\ Count(t, "OnEnter") = 0
            /\ Entity(t).State = Rule(t).From
            /\ Entity(t).States = call[t].pre.States

\* the turnstile went to Unlocked and back, and a further Coin failed after
\* OnExit("Locked")
C17_Witness ==
    \E t \in Threads :
        /\ Returned(t)
        /\ err[t] # NilErr
        /\ Callbacks(t) = <<"HandleEvent", "OnExit", "Action", "OnActionFailure">>
        /\ Entity(t).States = <<"Locked", "Unlocked", "Locked">>
        /\ Entity(t).State = "Locked"
        /\ Rule(t).To = "Unlocked"

\* the states named by the rules of table T
TableStates(T) == {T[i].From : i \in 1..Len(T)} \cup {T[i].To : i \in 1..Len(T)}

\* C18: for the turnstile of TestFSM, starting Locked with States = [Locked],
\* State is always the last element of States and a state of the table, and
\* the check of OnExit never fails in a call made with the recorded state.
C18_TurnstileConsistent ==
    \A t \in Threads :
        LET e == ts[obj[t]]
        IN  /\ Len(e.States) > 0
            /\ e.State = e.States[Len(e.States)]
            /\ e.State \in TableStates(transitions)
            /\ PassedEntityState(t) =>
                  /\ pc[t] # "panic"
                  /\ pc[t] = "OnExit" => OnExit(e, fromState(t))

\* back in Locked after Unlocked, the check of OnExit has passed once more
C18_Witness ==
    \E t \in Threads :
        /\ PassedEntityState(t)
        /\ pc[t] = "Action"
        /\ Count(t, "OnExit") = 1
        /\ ts[obj[t]].States = <<"Locked", "Unlocked", "Locked">>

\* the action of the returned call h is one of the two coin actions
CoinAction(h) == h.trans # <<>> /\ h.trans[1].Action \in {"check", "repeat-check"}

\* how often state s occurs in the history q
Occurrences(q, s) == Cardinality({i \in 1..Len(q) : q[i] = s})

====
